---- MODULE Spec2Model ----
(***************************************************************************)
(* A model of errgroup.Group (src/errgroup.go): admission by Go and TryGo, *)
(* the goroutine that doGo launches, and Wait.  Every access to a shared   *)
(* field of the Group (semaphore, wg, cancelled, cancel, errLock, err) is  *)
(* one atomic step, so that all interleavings of the callers, the launched *)
(* goroutines and the waiter are explored.                                 *)
(***************************************************************************)
EXTENDS Integers, Sequences, FiniteSets, TLC

\* Number of admission calls (Go or TryGo) made on the group.
NumCalls == 2
\* Largest limit handed to WithLimit.
MaxLimit == 1
\* Number of calls to Wait made on the group.
MaxWaits == 2

\* g.semaphore == nil: the group has no limit.
NoLimit == -1

\* The admission calls.  Call c is the c-th call to begin; the goroutine it
\* launches (if any) carries the same number, and so does the error it returns.
Calls == 1..NumCalls

VARIABLES
    semCap,       \* cap(g.semaphore), or NoLimit when g.semaphore is nil
    semLen,       \* len(g.semaphore): the permits held
    wg,           \* the counter of g.wg
    cancelled,    \* g.cancelled
    cancelBound,  \* g.cancel != nil
    ctxDone,      \* the context derived by WithCancel is cancelled
    cancelCalls,  \* how many times the context's CancelFunc was invoked
    errLock,      \* g.errLock is held
    err,          \* g.err: the errors appended so far (<<>> is nil)
    callPc,       \* position of each admission call, in Go or in TryGo
    result,       \* what the admission call returned
    taskPc,       \* position of each launched goroutine
    failed,       \* the goroutines whose f returned a non-nil error
    waitPc,       \* position of the caller of Wait
    waitCalls,    \* calls to Wait begun so far
    waitResults,  \* what each returned call to Wait returned
    beforeWait,   \* the admission calls that had returned when Wait was first called
    atFirstFail   \* the goroutines in flight when the first failure was returned

config == <<semCap, cancelBound>>
hist == <<beforeWait, atFirstFail>>
vars == <<semCap, semLen, wg, cancelled, cancelBound, ctxDone, cancelCalls,
          errLock, err, callPc, result, taskPc, failed, waitPc,
          waitCalls, waitResults, beforeWait, atFirstFail>>

----------------------------------------------------------------------------
\* Results of an admission call.
NoResult == [err |-> "none", limit |-> NoLimit]
NilResult == [err |-> "nil", limit |-> NoLimit]
CancelError == [err |-> "CancelError", limit |-> NoLimit]
LimitErrorZero(l) == [err |-> "LimitError", limit |-> 0]
LimitError(l) == [err |-> "LimitError", limit |-> l]

\* multierr.Append(g.err, err): the error joins the ones already there.
MultierrOverwrite(errs, e) == <<e>>
MultierrAppend(errs, e) == Append(errs, e)

\* The goroutines executing f.
Executing == {c \in Calls : taskPc[c] = "f"}

\* The goroutines that returned an error and are past the handling of it.
FailureProcessed == {c \in failed : taskPc[c] \in {"done", "release", "exit"}}

\* New(configurers...): the zero Group, then WithLimit and WithCancel applied.
Init ==
    /\ semCap \in {NoLimit} \cup (0..MaxLimit)
    /\ cancelBound \in BOOLEAN
    /\ semLen = 0
    /\ wg = 0
    /\ cancelled = FALSE
    /\ ctxDone = FALSE
    /\ cancelCalls = 0
    /\ errLock = FALSE
    /\ err = <<>>
    /\ callPc = [c \in Calls |-> "idle"]
    /\ result = [c \in Calls |-> NoResult]
    /\ taskPc = [c \in Calls |-> "none"]
    /\ failed = {}
    /\ waitPc = "idle"
    /\ waitCalls = 0
    /\ waitResults = <<>>
    /\ beforeWait = {}
    /\ atFirstFail = {}

----------------------------------------------------------------------------
\* Admission: Go and TryGo.

\* The semaphore channel's buffer is full: a send blocks, a select takes default.
SemNeverFull == FALSE
SemFullOffByOne == semCap # NoLimit /\ semLen > semCap
SemFull == semCap # NoLimit /\ semLen >= semCap

\* g.cancelled.Load() at the head of Go and TryGo.
LoadIgnored == FALSE
LoadCancelled == cancelled

\* Go or TryGo is called: if g.cancelled.Load() { return &CancelError{} }.
Begin(c, k) ==
    /\ callPc[c] = "idle"
    /\ \A d \in Calls : d < c => callPc[d] # "idle"
    /\ IF LoadCancelled
       THEN /\ callPc' = [callPc EXCEPT ![c] = "returned"]
            /\ result' = [result EXCEPT ![c] = CancelError]
       ELSE /\ callPc' = [callPc EXCEPT ![c] = IF k = "Go" THEN "goSend" ELSE "trySelect"]
            /\ UNCHANGED result
    /\ UNCHANGED <<config, semLen, wg, cancelled, ctxDone, cancelCalls, errLock,
                   err, taskPc, failed, waitPc, waitCalls, waitResults, hist>>

\* Go: if g.semaphore != nil { g.semaphore <- struct{}{} }, which blocks
\* while the buffer is full.
GoAcquire(c) ==
    /\ callPc[c] = "goSend"
    /\ ~SemFull
    /\ semLen' = IF semCap # NoLimit THEN semLen + 1 ELSE semLen
    /\ callPc' = [callPc EXCEPT ![c] = "goDoGo"]
    /\ UNCHANGED <<config, wg, cancelled, ctxDone, cancelCalls, errLock, err,
                   result, taskPc, failed, waitPc, waitCalls,
                   waitResults, hist>>

\* TryGo: the select that sends on the semaphore or returns a LimitError.
TryGoAcquire(c) ==
    /\ callPc[c] = "trySelect"
    /\ IF SemFull
       THEN /\ callPc' = [callPc EXCEPT ![c] = "returned"]
            /\ result' = [result EXCEPT ![c] = LimitError(semCap)]
            /\ UNCHANGED semLen
       ELSE /\ semLen' = IF semCap # NoLimit THEN semLen + 1 ELSE semLen
            /\ callPc' = [callPc EXCEPT ![c] = "tryDoGo"]
            /\ UNCHANGED result
    /\ UNCHANGED <<config, wg, cancelled, ctxDone, cancelCalls, errLock, err,
                   taskPc, failed, waitPc, waitCalls, waitResults, hist>>

\* The counter of g.wg after g.wg.Add(1).
WgAddNone(n) == n
WgAdd(n) == n + 1

\* doGo: g.wg.Add(1), go func() {...}(); then Go or TryGo returns nil.
DoGo(c) ==
    /\ callPc[c] \in {"goDoGo", "tryDoGo"}
    /\ wg' = WgAdd(wg)
    /\ taskPc' = [taskPc EXCEPT ![c] = "f"]
    /\ callPc' = [callPc EXCEPT ![c] = "returned"]
    /\ result' = [result EXCEPT ![c] = NilResult]
    /\ UNCHANGED <<config, semLen, cancelled, ctxDone, cancelCalls, errLock,
                   err, failed, waitPc, waitCalls, waitResults, hist>>

----------------------------------------------------------------------------
\* The cancel function that cancelConfigurer.configure binds to the group.

\* group.cancelled.Store(true)
StoreSkipped == UNCHANGED cancelled
StoreCancelled == cancelled' = TRUE

\* c.cancel(): the CancelFunc of the derived context; idempotent.
CtxCancelLost ==
    /\ UNCHANGED ctxDone
    /\ cancelCalls' = cancelCalls + 1
CtxCancel ==
    /\ ctxDone' = TRUE
    /\ cancelCalls' = cancelCalls + 1

----------------------------------------------------------------------------
\* The goroutine launched by doGo.

\* err := f(); if err != nil {...}: where the goroutine goes after f.
AfterFAlways(e) == "failed"
AfterF(e) == IF e THEN "failed" ELSE "done"

\* f returns, with an error (e) or with nil.
TaskReturn(c, e) ==
    /\ taskPc[c] = "f"
    /\ taskPc' = [taskPc EXCEPT ![c] = AfterF(e)]
    /\ failed' = IF e THEN failed \cup {c} ELSE failed
    /\ atFirstFail' = IF e /\ failed = {} THEN Executing ELSE atFirstFail
    /\ UNCHANGED <<config, semLen, wg, cancelled, ctxDone, cancelCalls, errLock,
                   err, callPc, result, waitPc, waitCalls, waitResults,
                   beforeWait>>

\* g.cancelled.Load() in the goroutine, after f returned an error.
TaskAlwaysCancelled == TRUE
TaskSeesCancelled == cancelled

\* if !g.cancelled.Load() {...}
TaskCheckCancelled(c) ==
    /\ taskPc[c] = "failed"
    /\ taskPc' = [taskPc EXCEPT ![c] = IF TaskSeesCancelled THEN "done" ELSE "cancel"]
    /\ UNCHANGED <<config, semLen, wg, cancelled, ctxDone, cancelCalls, errLock,
                   err, callPc, result, failed, waitPc, waitCalls,
                   waitResults, hist>>

\* if g.cancel != nil { g.cancel() }: the call, and its Store.
TaskCancelIntrinsic(c) ==
    /\ taskPc[c] = "cancel"
    /\ cancelled' = TRUE
    /\ taskPc' = [taskPc EXCEPT ![c] = IF cancelBound THEN "ctxCancel" ELSE "lock"]
    /\ UNCHANGED <<config, semLen, wg, ctxDone, cancelCalls, errLock, err,
                   callPc, result, failed, waitPc, waitCalls,
                   waitResults, hist>>
TaskCancel(c) ==
    /\ taskPc[c] = "cancel"
    /\ IF cancelBound
       THEN /\ StoreCancelled
            /\ taskPc' = [taskPc EXCEPT ![c] = "ctxCancel"]
       ELSE /\ UNCHANGED cancelled
            /\ taskPc' = [taskPc EXCEPT ![c] = "lock"]
    /\ UNCHANGED <<config, semLen, wg, ctxDone, cancelCalls, errLock, err,
                   callPc, result, failed, waitPc, waitCalls,
                   waitResults, hist>>

\* g.cancel(), second half: c.cancel().
TaskCtxCancel(c) ==
    /\ taskPc[c] = "ctxCancel"
    /\ CtxCancel
    /\ taskPc' = [taskPc EXCEPT ![c] = "lock"]
    /\ UNCHANGED <<config, semLen, wg, cancelled, errLock, err, callPc,
                   result, failed, waitPc, waitCalls, waitResults, hist>>

\* g.errLock.Lock()
TaskLock(c) ==
    /\ taskPc[c] = "lock"
    /\ ~errLock
    /\ errLock' = TRUE
    /\ taskPc' = [taskPc EXCEPT ![c] = "append"]
    /\ UNCHANGED <<config, semLen, wg, cancelled, ctxDone, cancelCalls, err,
                   callPc, result, failed, waitPc, waitCalls,
                   waitResults, hist>>

\* g.err = multierr.Append(g.err, err), then the deferred g.errLock.Unlock()
\* (the last deferred call runs first).  Nothing else reads or writes g.err
\* while the lock is held, so the two are one step.
TaskAppend(c) ==
    /\ taskPc[c] = "append"
    /\ err' = MultierrAppend(err, c)
    /\ errLock' = FALSE
    /\ taskPc' = [taskPc EXCEPT ![c] = "done"]
    /\ UNCHANGED <<config, semLen, wg, cancelled, ctxDone, cancelCalls,
                   callPc, result, failed, waitPc, waitCalls,
                   waitResults, hist>>

\* The counter of g.wg after g.wg.Done().
WgDoneMissing(n) == n
WgDone(n) == n - 1

\* The deferred function, first half: g.wg.Done().
TaskDone(c) ==
    /\ taskPc[c] = "done"
    /\ wg' = WgDone(wg)
    /\ taskPc' = [taskPc EXCEPT ![c] = IF semCap # NoLimit THEN "release" ELSE "exit"]
    /\ UNCHANGED <<config, semLen, cancelled, ctxDone, cancelCalls, errLock,
                   err, callPc, result, failed, waitPc, waitCalls,
                   waitResults, hist>>

\* The permits left after _ = <-g.semaphore.
ReleaseLeaked(n) == n
ReleasePermit(n) == n - 1

\* The deferred function, second half: _ = <-g.semaphore.
TaskRelease(c) ==
    /\ taskPc[c] = "release"
    /\ semLen > 0
    /\ semLen' = ReleasePermit(semLen)
    /\ taskPc' = [taskPc EXCEPT ![c] = "exit"]
    /\ UNCHANGED <<config, wg, cancelled, ctxDone, cancelCalls, errLock, err,
                   callPc, result, failed, waitPc, waitCalls,
                   waitResults, hist>>

----------------------------------------------------------------------------
\* Wait.

\* Wait is called.
WaitBegin ==
    /\ waitPc = "idle"
    /\ waitCalls < MaxWaits
    /\ waitCalls' = waitCalls + 1
    /\ waitPc' = "wgWait"
    /\ beforeWait' = IF waitCalls = 0
                     THEN {c \in Calls : callPc[c] = "returned"}
                     ELSE beforeWait
    /\ UNCHANGED <<config, semLen, wg, cancelled, ctxDone, cancelCalls, errLock,
                   err, callPc, result, taskPc, failed, waitResults,
                   atFirstFail>>

\* g.wg.Wait() returns when the counter is zero.
WgAlwaysZero == TRUE
WgZero == wg = 0

\* g.wg.Wait(), then if g.cancel != nil.
WaitWg ==
    /\ waitPc = "wgWait"
    /\ WgZero
    /\ waitPc' = IF cancelBound THEN "cancel" ELSE "lock"
    /\ UNCHANGED <<config, semLen, wg, cancelled, ctxDone, cancelCalls, errLock,
                   err, callPc, result, taskPc, failed, waitCalls,
                   waitResults, hist>>

\* g.cancel(), first half: group.cancelled.Store(true).
WaitCancel ==
    /\ waitPc = "cancel"
    /\ StoreCancelled
    /\ waitPc' = "ctxCancel"
    /\ UNCHANGED <<config, semLen, wg, ctxDone, cancelCalls, errLock, err,
                   callPc, result, taskPc, failed, waitCalls,
                   waitResults, hist>>

\* Wait's g.cancel(), second half: whether c.cancel() is reached.
WaitCtxCancelSkipped == UNCHANGED <<ctxDone, cancelCalls>>
WaitCtxCancelCall == CtxCancel

\* g.cancel(), second half: c.cancel().
WaitCtxCancel ==
    /\ waitPc = "ctxCancel"
    /\ WaitCtxCancelCall
    /\ waitPc' = "lock"
    /\ UNCHANGED <<config, semLen, wg, cancelled, errLock, err, callPc,
                   result, taskPc, failed, waitCalls, waitResults, hist>>

\* g.errLock.Lock()
WaitLock ==
    /\ waitPc = "lock"
    /\ ~errLock
    /\ errLock' = TRUE
    /\ waitPc' = "read"
    /\ UNCHANGED <<config, semLen, wg, cancelled, ctxDone, cancelCalls, err,
                   callPc, result, taskPc, failed, waitCalls,
                   waitResults, hist>>

\* return g.err, and the deferred g.errLock.Unlock().
WaitReturnAndReset ==
    /\ waitPc = "read"
    /\ waitResults' = Append(waitResults, err)
    /\ err' = <<>>
    /\ errLock' = FALSE
    /\ waitPc' = "idle"
    /\ UNCHANGED <<config, semLen, wg, cancelled, ctxDone, cancelCalls,
                   callPc, result, taskPc, failed, waitCalls, hist>>
WaitReturn ==
    /\ waitPc = "read"
    /\ waitResults' = Append(waitResults, err)
    /\ errLock' = FALSE
    /\ waitPc' = "idle"
    /\ UNCHANGED <<config, semLen, wg, cancelled, ctxDone, cancelCalls, err,
                   callPc, result, taskPc, failed, waitCalls, hist>>

----------------------------------------------------------------------------
CallStep(c) ==
    \/ \E k \in {"Go", "TryGo"} : Begin(c, k)
    \/ GoAcquire(c)
    \/ TryGoAcquire(c)
    \/ DoGo(c)

TaskFinish(c) ==
    \/ TaskCheckCancelled(c)
    \/ TaskCancel(c)
    \/ TaskCtxCancel(c)
    \/ TaskLock(c)
    \/ TaskAppend(c)
    \/ TaskDone(c)
    \/ TaskRelease(c)

WaitStep ==
    \/ WaitWg
    \/ WaitCancel
    \/ WaitCtxCancel
    \/ WaitLock
    \/ WaitReturn

Next ==
    \/ \E c \in Calls : CallStep(c)
    \/ \E c \in Calls : \E e \in BOOLEAN : TaskReturn(c, e)
    \/ \E c \in Calls : TaskFinish(c)
    \/ WaitBegin
    \/ WaitStep

Spec == Init /\ [][Next]_vars

\* A step of a goroutine already running: of a call past its first statement,
\* of a launched goroutine (f returning included), or of a call to Wait.
Progress ==
    \/ \E c \in Calls : GoAcquire(c) \/ TryGoAcquire(c) \/ DoGo(c)
    \/ \E c \in Calls : \E e \in BOOLEAN : TaskReturn(c, e)
    \/ \E c \in Calls : TaskFinish(c)
    \/ WaitStep

\* The scheduler does not stop while some goroutine can take a step, and
\* every f returns.  When Go, TryGo and Wait are called is up to the caller.
\* No goroutine loops, so this is as strong here as fairness to each of them.
LiveSpec == Spec /\ WF_vars(Progress)

----------------------------------------------------------------------------
\* What the claims speak of.

\* The errors an aggregated error holds.
ErrSet(errs) == {errs[i] : i \in DOMAIN errs}

\* Every admission call made so far had returned when Wait was first called.
Settled ==
    /\ waitCalls >= 1
    /\ \A c \in Calls : callPc[c] # "idle" => c \in beforeWait

\* C1: with WithLimit(K), K >= 1, in every reachable state at most K
\* goroutines are executing their function f.
C1_LimitBoundsExecuting ==
    semCap >= 1 => Cardinality(Executing) <= semCap

\* K goroutines execute f while a call to Go is blocked on the semaphore.
C1_Witness ==
    /\ semCap >= 1
    /\ Cardinality(Executing) = semCap
    /\ \E c \in Calls : callPc[c] = "goSend"

\* C2: without limit and without cancellation binding no admission call is
\* rejected, and Wait (called after the admission calls returned) returns an
\* aggregated error holding exactly the errors of the goroutines that failed:
\* N of them when N failing tasks were submitted.
C2_AllAdmittedAllAggregated ==
    (semCap = NoLimit /\ ~cancelBound) =>
        /\ \A c \in Calls : result[c].err \in {"none", "nil"}
        /\ Settled => \A i \in DOMAIN waitResults :
              /\ Len(waitResults[i]) = Cardinality(failed)
              /\ ErrSet(waitResults[i]) = failed

\* Every call was admitted, every task failed, and Wait returned them all.
C2_Witness ==
    /\ semCap = NoLimit /\ ~cancelBound /\ Settled
    /\ \A c \in Calls : result[c].err = "nil"
    /\ failed = Calls
    /\ Len(waitResults) >= 1
    /\ Len(waitResults[1]) = NumCalls

\* C3: with WithLimit(K) and no cancellation binding, a TryGo that tries the
\* semaphore while K goroutines are held open in f returns a LimitError
\* carrying K and launches nothing; and Wait (called after the admission
\* calls returned) returns exactly the errors of the goroutines that ran and
\* failed, none for a rejected call.
C3_FullRejectsAndOnlyRunCounted ==
    /\ [][\A c \in Calls :
            (/\ semCap # NoLimit /\ ~cancelBound
             /\ callPc[c] = "trySelect"
             /\ callPc'[c] # "trySelect"
             /\ Cardinality(Executing) = semCap)
            => (/\ callPc'[c] = "returned"
                /\ result'[c].err = "LimitError"
                /\ result'[c].limit = semCap
                /\ taskPc'[c] = "none"
                /\ wg' = wg)]_vars
    /\ []((semCap # NoLimit /\ ~cancelBound) =>
            /\ \A c \in Calls : result[c].err = "LimitError" =>
                  taskPc[c] = "none" /\ c \notin failed
            /\ Settled => \A i \in DOMAIN waitResults :
                  /\ Len(waitResults[i]) = Cardinality(failed)
                  /\ ErrSet(waitResults[i]) = failed)

\* K tasks ran and failed, a TryGo was rejected, and Wait returned K errors.
C3_Witness ==
    /\ semCap >= 1 /\ ~cancelBound /\ Settled
    /\ \E c \in Calls : result[c].err = "LimitError" /\ result[c].limit = semCap
    /\ Cardinality(failed) = semCap
    /\ Len(waitResults) >= 1
    /\ Len(waitResults[1]) = semCap

\* C4: with a cancellation binding and no limit, when N >= 2 goroutines were
\* all in flight at the first failure and all of them return an error, Wait
\* returns an aggregated error holding exactly one error.
C4_ExactlyOneAggregated ==
    (/\ cancelBound /\ semCap = NoLimit /\ Settled
     /\ Cardinality(atFirstFail) >= 2
     /\ atFirstFail = {c \in Calls : callPc[c] # "idle"}
     /\ failed = atFirstFail)
    => \A i \in DOMAIN waitResults : Len(waitResults[i]) = 1

\* C5: with a cancellation binding, once a goroutine that returned an error
\* is past the handling of it, every Go or TryGo that begins returns a
\* CancelError and launches nothing.
C5_CancelledRejects ==
    /\ [][\A c \in Calls :
            (/\ cancelBound /\ FailureProcessed # {}
             /\ callPc[c] = "idle" /\ callPc'[c] # "idle")
            => (/\ callPc'[c] = "returned"
                /\ result'[c].err = "CancelError"
                /\ taskPc'[c] = "none"
                /\ wg' = wg /\ semLen' = semLen)]_vars
    /\ [](\A c \in Calls : result[c].err = "CancelError" => taskPc[c] = "none")

\* A call was rejected with CancelError after a failure, before any Wait.
C5_Witness ==
    /\ cancelBound /\ waitCalls = 0
    /\ FailureProcessed # {}
    /\ \E c \in Calls : result[c].err = "CancelError" /\ taskPc[c] = "none"

\* C6: with a cancellation binding, once a call to Wait has returned the
\* derived context is cancelled, whether or not a task failed.
C6_WaitCancelsContext ==
    (cancelBound /\ Len(waitResults) > 0) => ctxDone

\* Wait returned on a group whose tasks all returned nil.
C6_Witness ==
    /\ cancelBound /\ Len(waitResults) > 0
    /\ failed = {}
    /\ \E c \in Calls : taskPc[c] = "exit"
    /\ ctxDone

C8_CancelAtMostOnce ==
    (cancelBound /\ waitCalls <= 1) => cancelCalls <= 1

\* C8 amended: the cancel function is invoked at most once by each goroutine
\* that returned an error and at most once by each call to Wait, and never
\* without a cancellation binding.
C8_CancelOncePerFailureAndWait ==
    /\ cancelCalls <= Cardinality(failed) + waitCalls
    /\ ~cancelBound => cancelCalls = 0

\* The cancel function was invoked by a failing goroutine and again by Wait.
C8_Witness ==
    /\ cancelBound /\ cancelCalls >= 2
    /\ Cardinality(failed) = 1
    /\ Len(waitResults) >= 1

\* C9 as stated: when Wait returns, the aggregated error holds one error for
\* every goroutine that failed, with or without a cancellation binding.
C9_EveryFailureAggregated ==
    Settled => \A i \in DOMAIN waitResults :
        Len(waitResults[i]) = Cardinality(failed)

\* C9 amended: without a cancellation binding every failure is aggregated;
\* with one, the failures of goroutines that find the group cancelled are
\* dropped, so that the aggregated error holds at least one and at most all
\* of the failures.
C9_FailuresAggregatedUnlessCancelled ==
    Settled => \A i \in DOMAIN waitResults :
        /\ ErrSet(waitResults[i]) \subseteq failed
        /\ Len(waitResults[i]) = Cardinality(ErrSet(waitResults[i]))
        /\ ~cancelBound => ErrSet(waitResults[i]) = failed
        /\ failed # {} => Len(waitResults[i]) >= 1

\* With a cancellation binding two tasks failed and Wait returned one error.
C9_Witness ==
    /\ cancelBound /\ Settled
    /\ Len(waitResults) >= 1
    /\ Cardinality(failed) >= 2
    /\ Len(waitResults[1]) = 1

\* C10: for every configuration, when the admission calls returned before
\* Wait was called, Wait returns a non-nil error exactly when some launched
\* goroutine returned an error.
C10_ErrorIffSomeFailure ==
    Settled => \A i \in DOMAIN waitResults :
        Len(waitResults[i]) > 0 <=> failed # {}

\* With limit and cancellation binding, a task failed and Wait returned non-nil.
C10_Witness ==
    /\ Settled /\ cancelBound /\ semCap >= 1
    /\ failed # {}
    /\ Len(waitResults) >= 1
    /\ Len(waitResults[1]) > 0

\* The goroutines launched and not yet past their g.wg.Done().
Pending ==
    {c \in Calls : taskPc[c] \in {"f", "failed", "cancel", "ctxCancel",
                                  "lock", "append", "done"}}

\* C11: Wait never returns while a goroutine whose admission call returned
\* nil before Wait was called is still executing: the counter of g.wg counts
\* the goroutines launched and not yet done, it is incremented before the
\* admission call returns, and Wait gets past g.wg.Wait() only when every
\* goroutine admitted so far is past its g.wg.Done().
C11_WaitOutlastsAdmittedTasks ==
    /\ [](wg = Cardinality(Pending))
    /\ [][(waitPc = "wgWait" /\ waitPc' # "wgWait") =>
            \A c \in Calls :
                (callPc[c] = "returned" /\ result[c].err = "nil")
                => taskPc[c] \in {"release", "exit"}]_vars
    /\ [](Len(waitResults) >= 1 =>
            \A c \in beforeWait :
                result[c].err = "nil" => taskPc[c] \in {"release", "exit"})

\* Wait returned after a goroutine admitted before the call had run and failed.
C11_Witness ==
    /\ Len(waitResults) >= 1
    /\ \E c \in beforeWait :
          result[c].err = "nil" /\ c \in failed /\ taskPc[c] = "exit"

\* C12: a second call to Wait, with no admission since before the first,
\* does not block (the counter is zero and the lock is free when it gets
\* there) and returns the same aggregated error as the first.
C12_SecondWaitSame ==
    Settled =>
        /\ Len(waitResults) >= 2 => waitResults[2] = waitResults[1]
        /\ (Len(waitResults) >= 1 /\ waitPc = "wgWait") => wg = 0
        /\ (Len(waitResults) >= 1 /\ waitPc = "lock") => ~errLock

\* Two calls to Wait returned the same two errors.
C12_Witness ==
    /\ Settled
    /\ Len(waitResults) >= 2
    /\ Len(waitResults[1]) = 2
    /\ waitResults[2] = waitResults[1]

\* C13: for every configuration, a call to Wait eventually returns: in the
\* end no call to Wait is in progress and every call made has returned.
C13_WaitEventuallyReturns ==
    <>[](waitPc = "idle" /\ Len(waitResults) = waitCalls)

\* Every call to Wait made has returned, after goroutines admitted before the
\* first call ran, failed and appended under the lock.
C13_Witness ==
    /\ Settled
    /\ waitPc = "idle" /\ Len(waitResults) = waitCalls
    /\ Len(waitResults[1]) >= 1

\* Some goroutine, or the caller of Wait, is inside g.cancel(), between
\* group.cancelled.Store(true) and c.cancel().
InsideCancel ==
    waitPc = "ctxCancel" \/ \E c \in Calls : taskPc[c] = "ctxCancel"

\* C14 as stated: with a cancellation binding, whenever the cancelled flag
\* reads true the context's cancel function has already been invoked.
C14_CancelledImpliesInvoked ==
    (cancelBound /\ cancelled) => ctxDone

\* C14 amended: the flag is stored before the context's cancel function is
\* invoked, so the flag can read true while the context is not yet cancelled,
\* but only while the goroutine that stored it is still inside g.cancel(),
\* about to invoke the context's cancel function; and the context is never
\* cancelled while the flag reads false.
C14_CancelledThenInvoked ==
    cancelBound =>
        /\ cancelled => (ctxDone \/ InsideCancel)
        /\ ctxDone => cancelled

\* The flag reads true and the context is not cancelled yet.
C14_Witness ==
    /\ cancelBound /\ cancelled /\ ~ctxDone
    /\ \E c \in Calls : taskPc[c] = "ctxCancel"

\* The permits in use: taken by an admission call that has not launched its
\* goroutine yet, or by a goroutine that has not given its permit back.
PermitHolders ==
    {c \in Calls : \/ callPc[c] \in {"goDoGo", "tryDoGo"}
                   \/ taskPc[c] \notin {"none", "exit"}}

\* C15: with WithLimit(K), when Wait has returned (the admission calls having
\* returned before Wait was called) no permit is held.
C15_NoPermitHeldAfterWait ==
    (semCap # NoLimit /\ Settled /\ Len(waitResults) >= 1) => semLen = 0

\* C16: with WithLimit(K), a permit is held exactly by the calls and
\* goroutines that took one and have not given it back: in every reachable
\* state 0 <= permits held <= K, and once every launched goroutine has
\* finished, on whichever path, no permit is held.
C16_PermitsReleasedOnce ==
    semCap # NoLimit =>
        /\ semLen = Cardinality(PermitHolders)
        /\ 0 <= semLen /\ semLen <= semCap
        /\ PermitHolders = {} => semLen = 0

\* Goroutines finished after failing, one before the cancellation (its error
\* appended) and one after it (its error dropped), and no permit is left held.
C16_Witness ==
    /\ semCap >= 1 /\ cancelBound
    /\ \A c \in Calls : taskPc[c] = "exit"
    /\ Cardinality(failed) >= 2
    /\ Len(err) = 1
    /\ semLen = 0

\* C17 as stated: the cancelled flag reads true once a failing goroutine is
\* past the handling of its error, with or without a cancellation binding.
C17_CancelledIsIntrinsic ==
    FailureProcessed # {} => cancelled

\* C17 amended: the cancelled flag is stored only by the bound cancel
\* function.  Without a cancellation binding it reads false for ever and no
\* Go or TryGo returns a CancelError, whatever failures there were; with a
\* binding it reads true once a failing goroutine is past the handling of
\* its error.
C17_CancelledNeedsBinding ==
    /\ ~cancelBound =>
          /\ ~cancelled
          /\ \A c \in Calls : result[c].err # "CancelError"
    /\ (cancelBound /\ FailureProcessed # {}) => cancelled

\* Without a binding, a goroutine failed and finished, and a goroutine that
\* was not yet launched at that failure was admitted all the same.
C17_Witness ==
    /\ ~cancelBound
    /\ \E c \in FailureProcessed : taskPc[c] = "exit"
    /\ \E c \in Calls : c \notin atFirstFail /\ result[c].err = "nil"
    /\ ~cancelled

\* C18: with a cancellation binding, the context's cancel function has been
\* invoked in every reachable state in which the aggregated error is not nil.
C18_CancelBeforeAppend ==
    (cancelBound /\ Len(err) > 0) => ctxDone

\* An error was appended before any call to Wait.
C18_Witness ==
    /\ cancelBound /\ waitCalls = 0
    /\ Len(err) > 0
    /\ ctxDone

\* C19: with a cancellation binding, Wait marks the group cancelled: once a
\* call to Wait has returned, the flag reads true and every Go or TryGo that
\* begins returns a CancelError and launches nothing, also when no goroutine
\* ever failed.
C19_WaitCancelsGroup ==
    /\ []((cancelBound /\ Len(waitResults) >= 1) => cancelled)
    /\ [][\A c \in Calls :
            (/\ cancelBound /\ Len(waitResults) >= 1
             /\ callPc[c] = "idle" /\ callPc'[c] # "idle")
            => (/\ callPc'[c] = "returned"
                /\ result'[c].err = "CancelError"
                /\ taskPc'[c] = "none"
                /\ wg' = wg /\ semLen' = semLen)]_vars

\* No goroutine failed, Wait returned, and a call was rejected as cancelled.
C19_Witness ==
    /\ cancelBound /\ failed = {}
    /\ Len(waitResults) >= 1
    /\ \E c \in Calls : c \notin beforeWait /\ result[c].err = "CancelError"

\* C20: with WithLimit(0) no goroutine is ever launched: a TryGo that gets to
\* its select returns a LimitError carrying 0, and a Go that gets to its send
\* on the semaphore stays there for ever.
C20_LimitZeroLaunchesNothing ==
    /\ [](semCap = 0 =>
            /\ semLen = 0 /\ wg = 0
            /\ \A c \in Calls :
                  /\ taskPc[c] = "none"
                  /\ callPc[c] \in {"idle", "goSend", "trySelect", "returned"}
                  /\ result[c].err \in {"none", "LimitError", "CancelError"}
                  /\ result[c].err = "LimitError" => result[c].limit = 0)
    /\ [][semCap = 0 =>
            \A c \in Calls :
                /\ callPc[c] = "goSend" => callPc'[c] = "goSend"
                /\ (callPc[c] = "trySelect" /\ callPc'[c] # "trySelect")
                   => (/\ callPc'[c] = "returned"
                       /\ result'[c].err = "LimitError"
                       /\ result'[c].limit = 0)]_vars

\* With limit 0, a Go is blocked on the semaphore and a TryGo was rejected.
C20_Witness ==
    /\ semCap = 0
    /\ \E c \in Calls : callPc[c] = "goSend"
    /\ \E c \in Calls : result[c].err = "LimitError" /\ result[c].limit = 0

====
